---- MODULE Spec2Model ----
(***************************************************************************)
(* The useFixedSizeList hook of src/src/examples/Simple.tsx, in its two    *)
(* variants: the dynamic-height hook (first half of the file) and the      *)
(* fixed-height hook (second half).  Pixel quantities are integers.        *)
(***************************************************************************)
EXTENDS Integers, Sequences, FiniteSets

\* ------------------------------------------------------------------ bounds
MaxItems    == 3
MaxHeight   == 2
MaxScroll   == 3
MaxViewport == 2
MaxOverscan == 1
MaxDelay    == 2
MaxTimers   == 2

NULL == "null"

Indices         == 0 .. (MaxItems - 1)
Heights         == 1 .. MaxHeight
ScrollOffsets   == 0 .. MaxScroll
ViewportHeights == 0 .. MaxViewport
Overscans       == {0, MaxOverscan}
Delays          == 0 .. MaxDelay
TimerIds        == 1 .. MaxTimers

\* An optional function prop that was not passed.
Undefined == << >>

\* The height functions a caller passes as itemHeight / estimateItemHeight:
\* a constant one and one that varies with the index.
HeightFns == { [i \in Indices |-> 1 + ((i * k) % MaxHeight)] : k \in 0 .. 1 }

Max(a, b) == IF a >= b THEN a ELSE b
Min(a, b) == IF a <= b THEN a ELSE b

VARIABLES
  variant,          \* which of the two hooks of the file is running
  props,            \* itemsCount, overscan, itemHeight, estimateItemHeight
  scrollingDelay,   \* the scrollingDelay prop (it may change between renders)
  listItems,        \* Simple's listItems: the ids, in display order
  scrollElement,    \* what getScrollElement() returns
  scrollTop, isScrolling, listHeight, measurementCache,
  listeners,        \* the observers / listeners currently registered
  timeoutId,        \* the debounce effect's closure variable
  timers,           \* the timeouts pending in the host: id -> time left
  sinceScroll       \* time elapsed since the last scroll event (capped)

vars == << variant, props, scrollingDelay, listItems, scrollElement, scrollTop,
           isScrolling, listHeight, measurementCache, listeners, timeoutId,
           timers, sinceScroll >>

\* ------------------------------------------------- the dynamic-height hook
\* The window is a useMemo of the render's props and state: r holds what the
\* memo closes over (its dependency array).

\* getItemHeight looking the cache up by the row's position, not its key.
getItemHeightByPosition(r, index) ==
  IF DOMAIN r.itemHeight # {}
    THEN r.itemHeight[index]
    ELSE LET key == index + 1
         IN  IF key \in DOMAIN r.measurementCache
               THEN r.measurementCache[key]
               ELSE r.estimateItemHeight[index]

\* getItemHeight looking at the cache before itemHeight.
getItemHeightCacheFirst(r, index) ==
  LET key == r.getItemKey[index]
  IN  IF key \in DOMAIN r.measurementCache
        THEN r.measurementCache[key]
        ELSE IF DOMAIN r.itemHeight # {}
               THEN r.itemHeight[index]
               ELSE r.estimateItemHeight[index]

getItemHeight(r, index) ==
  IF DOMAIN r.itemHeight # {}
    THEN r.itemHeight[index]
    ELSE LET key == r.getItemKey[index]
         IN  IF key \in DOMAIN r.measurementCache
               THEN r.measurementCache[key]
               ELSE r.estimateItemHeight[index]

rangeStart(r) == r.scrollTop
rangeEnd(r)   == r.scrollTop + r.listHeight

\* ScanRow taking every row before this one to have this row's height.
ScanRowUniform(r, i, totalHeight) ==
  [ key |-> r.getItemKey[i], index |-> i,
    height |-> getItemHeight(r, i), offsetTop |-> i * getItemHeight(r, i) ]

\* The row built in one iteration of the scan, totalHeight being the sum so far.
ScanRow(r, i, totalHeight) ==
  [ key |-> r.getItemKey[i], index |-> i,
    height |-> getItemHeight(r, i), offsetTop |-> totalHeight ]

ScanStartIndex(r, startIndex, i, row) ==
  IF startIndex = -1 /\ row.offsetTop + row.height > rangeStart(r)
    THEN Max(0, i - r.overscan)
    ELSE startIndex

\* ScanEndIndex without the overscan.
ScanEndIndexNoOverscan(r, endIndex, i, row) ==
  IF endIndex = -1 /\ row.offsetTop + row.height >= rangeEnd(r)
    THEN Min(r.itemsCount - 1, i)
    ELSE endIndex

ScanEndIndex(r, endIndex, i, row) ==
  IF endIndex = -1 /\ row.offsetTop + row.height >= rangeEnd(r)
    THEN Min(r.itemsCount - 1, i + r.overscan)
    ELSE endIndex

\* ScanTotalHeight assigning the row's height instead of adding it.
ScanTotalHeightAssigned(totalHeight, row) == row.height

ScanTotalHeight(totalHeight, row) == totalHeight + row.height

\* for (let i = 0; i < itemsCount; i++) { ... }
RECURSIVE Scan(_, _, _)
Scan(r, i, acc) ==
  IF ~(i < r.itemsCount)
    THEN acc
    ELSE LET row == ScanRow(r, i, acc.totalHeight)
         IN  Scan(r, i + 1,
                  [ startIndex  |-> ScanStartIndex(r, acc.startIndex, i, row),
                    endIndex    |-> ScanEndIndex(r, acc.endIndex, i, row),
                    totalHeight |-> ScanTotalHeight(acc.totalHeight, row),
                    allItems    |-> Append(acc.allItems, row) ])

\* Array.prototype.slice(start, end): negative arguments count from the end
\* of the array, both are clamped to the array.
Slice(arr, start, end) ==
  LET len  == Len(arr)
      from == IF start < 0 THEN Max(len + start, 0) ELSE Min(start, len)
      to   == IF end < 0 THEN Max(len + end, 0) ELSE Min(end, len)
  IN  SubSeq(arr, from + 1, to)

DynamicWindow(r) ==
  LET s == Scan(r, 0, [ startIndex |-> -1, endIndex |-> -1, totalHeight |-> 0,
                        allItems |-> << >> ])
  IN  [ virtualItems |-> Slice(s.allItems, s.startIndex, s.endIndex + 1),
        startIndex   |-> s.startIndex,
        endIndex     |-> s.endIndex,
        allItems     |-> s.allItems,
        totalHeight  |-> s.totalHeight ]

\* --------------------------------------------------- the fixed-height hook
Floor(a, b) == a \div b
Ceil(a, b)  == -((-a) \div b)

\* FixedStartIndex rounding up instead of down.
FixedStartIndexCeil(r) ==
  Max(0, Ceil(rangeStart(r), r.itemHeight) - r.overscan)

FixedStartIndex(r) == Max(0, Floor(rangeStart(r), r.itemHeight) - r.overscan)

\* FixedEndIndex rounding down instead of up.
FixedEndIndexFloor(r) ==
  Min(r.itemsCount - 1, Floor(rangeEnd(r), r.itemHeight) + r.overscan)

FixedEndIndex(r) ==
  Min(r.itemsCount - 1, Ceil(rangeEnd(r), r.itemHeight) + r.overscan)

\* for (let index = startIndex; index <= endIndex; index++) virtualItems.push(..)
RECURSIVE FixedRows(_, _, _)
FixedRows(r, index, endIndex) ==
  IF ~(index <= endIndex)
    THEN << >>
    ELSE << [ index |-> index, offsetTop |-> index * r.itemHeight ] >>
         \o FixedRows(r, index + 1, endIndex)

FixedTotalHeight(r) == r.itemHeight * r.itemsCount

FixedWindow(r) ==
  [ virtualItems |-> FixedRows(r, FixedStartIndex(r), FixedEndIndex(r)),
    startIndex   |-> FixedStartIndex(r),
    endIndex     |-> FixedEndIndex(r),
    totalHeight  |-> FixedTotalHeight(r) ]

\* What the hook returns from a render.
useFixedSizeList(r) ==
  IF r.variant = "fixed" THEN FixedWindow(r) ELSE DynamicWindow(r)

\* Simple's getItemKey: (index) => listItems[index].id
getItemKey == [ index \in 0 .. (Len(listItems) - 1) |-> listItems[index + 1] ]

\* The current render.
Render ==
  [ variant            |-> variant,
    itemsCount         |-> props.itemsCount,
    overscan           |-> props.overscan,
    itemHeight         |-> props.itemHeight,
    estimateItemHeight |-> props.estimateItemHeight,
    getItemKey         |-> getItemKey,
    scrollTop          |-> scrollTop,
    listHeight         |-> listHeight,
    measurementCache   |-> measurementCache ]

\* ------------------------------------------------------------ construction
NoTimer == 0

\* On mount: useState(0), useState(false), useState(0), useState({}); no
\* effect has run yet.
Mounted(v, p, items, delay) ==
  /\ variant = v
  /\ props = p
  /\ listItems = items
  /\ scrollingDelay = delay
  /\ scrollElement = NULL
  /\ scrollTop = 0
  /\ isScrolling = FALSE
  /\ listHeight = 0
  /\ measurementCache = << >>
  /\ listeners = {}
  /\ timeoutId = NoTimer
  /\ timers = << >>
  /\ sinceScroll = MaxDelay

\* The props of the dynamic-height hook as Simple passes them:
\* estimateItemHeight and no itemHeight.
DynamicProps ==
  [ itemsCount : 0 .. MaxItems, overscan : Overscans, itemHeight : {Undefined},
    estimateItemHeight : HeightFns ]

\* The props of the dynamic-height hook given both itemHeight and another
\* estimateItemHeight.
PrecedenceProps ==
  { p \in [ itemsCount : 0 .. MaxItems, overscan : Overscans,
            itemHeight : HeightFns, estimateItemHeight : HeightFns ] :
      p.itemHeight # p.estimateItemHeight }

\* The props of the fixed-height hook: itemHeight is a number.
FixedProps ==
  [ itemsCount : 0 .. MaxItems, overscan : Overscans, itemHeight : Heights,
    estimateItemHeight : {Undefined} ]

\* Simple's items: one id per item.
Items(n) == [ i \in 1 .. n |-> i ]

DEFAULT_SCROLLING_DELAY == 100

\* The hooks as Simple mounts them, scrollingDelay left to its default.
Init ==
  \/ \E p \in DynamicProps :
       Mounted("dynamic", p, Items(p.itemsCount), DEFAULT_SCROLLING_DELAY)
  \/ \E p \in FixedProps :
       Mounted("fixed", p, Items(p.itemsCount), DEFAULT_SCROLLING_DELAY)

\* The dynamic-height hook mounted with itemHeight and estimateItemHeight.
InitPrecedence ==
  \E p \in PrecedenceProps :
    Mounted("dynamic", p, Items(p.itemsCount), DEFAULT_SCROLLING_DELAY)

\* The hooks mounted with a scrollingDelay.
InitDebounce ==
  \E delay \in Delays :
    \/ \E p \in DynamicProps :
         /\ p.itemsCount = MaxItems /\ p.overscan = MaxOverscan
         /\ p.itemHeight = Undefined
         /\ \A i \in Indices : p.estimateItemHeight[i] = 1
         /\ Mounted("dynamic", p, Items(p.itemsCount), delay)
    \/ \E p \in FixedProps :
         /\ p.itemsCount = MaxItems /\ p.overscan = MaxOverscan
         /\ p.itemHeight = 1
         /\ Mounted("fixed", p, Items(p.itemsCount), delay)

\* What a state variable of the hook holds while its useState has not run.
NoState == "none"

\* !f of an optional function prop: a function is truthy, undefined is not.
Falsy(f) == DOMAIN f = {}

\* validateProps throwing when either of the two props is missing.
validatePropsEither(p) == Falsy(p.itemHeight) \/ Falsy(p.estimateItemHeight)

\* validateProps(props): TRUE when it throws.
validateProps(p) == Falsy(p.itemHeight) /\ Falsy(p.estimateItemHeight)

\* The props a caller may pass to the dynamic-height hook: each of the two
\* height functions is optional.
ConstructProps ==
  [ itemsCount : 0 .. MaxItems, overscan : Overscans,
    itemHeight : {Undefined} \cup HeightFns,
    estimateItemHeight : {Undefined} \cup HeightFns ]

\* Simple is about to call the dynamic-height hook for the first time: its
\* own useState has run, the hook's have not.
InitConstruct ==
  \E p \in ConstructProps :
    /\ variant = "pending"
    /\ props = p
    /\ listItems = Items(p.itemsCount)
    /\ scrollingDelay = DEFAULT_SCROLLING_DELAY
    /\ scrollElement = NULL
    /\ scrollTop = NoState
    /\ isScrolling = NoState
    /\ listHeight = NoState
    /\ measurementCache = NoState
    /\ listeners = {}
    /\ timeoutId = NoTimer
    /\ timers = << >>
    /\ sinceScroll = MaxDelay

\* The first call of the hook: validateProps(props), then the useState calls.
Mount ==
  /\ variant = "pending"
  /\ IF validateProps(props)
       THEN /\ variant' = "error"
            /\ UNCHANGED << scrollTop, isScrolling, listHeight,
                            measurementCache >>
       ELSE /\ variant' = "dynamic"
            /\ scrollTop' = 0
            /\ isScrolling' = FALSE
            /\ listHeight' = 0
            /\ measurementCache' = << >>
  /\ UNCHANGED << props, scrollingDelay, listItems, scrollElement, listeners,
                  timeoutId, timers, sinceScroll >>

\* ------------------------------------------------------------------ timers
clearTimeout(pending, id) == [ t \in DOMAIN pending \ {id} |-> pending[t] ]

\* The handle the host gives a new timeout: one that no pending timeout has.
NewTimerId(pending) ==
  CHOOSE id \in TimerIds \ DOMAIN pending :
    \A other \in TimerIds \ DOMAIN pending : id <= other

setTimeout(pending, id, delay) ==
  [ t \in DOMAIN pending \cup {id} |-> IF t = id THEN delay ELSE pending[t] ]

\* handleScroll clearing nothing and keeping the first handle in timeoutId.
DebounceHandleScrollKeepFirst ==
  LET id == NewTimerId(timers)
  IN  [ timers    |-> setTimeout(timers, id, scrollingDelay),
        timeoutId |-> IF timeoutId # NoTimer THEN timeoutId ELSE id ]

\* handleScroll arming a new timeout without clearing the pending one.
DebounceHandleScrollNoClear ==
  LET id == NewTimerId(timers)
  IN  [ timers |-> setTimeout(timers, id, scrollingDelay), timeoutId |-> id ]

\* The debounce effect's handleScroll: the pending timeout is cleared and
\* a new one takes its place in timeoutId.
DebounceHandleScroll ==
  LET cleared == IF timeoutId # NoTimer
                   THEN clearTimeout(timers, timeoutId) ELSE timers
      id      == NewTimerId(cleared)
  IN  [ timers |-> setTimeout(cleared, id, scrollingDelay), timeoutId |-> id ]

\* The cleanup leaving the pending timeout armed.
CleanupTimersKeepPending == timers

\* The timeouts pending after the debounce effect's cleanup.
CleanupTimers ==
  IF timeoutId # NoTimer THEN clearTimeout(timers, timeoutId) ELSE timers

\* ----------------------------------------------------------------- effects
\* getScrollElement starts to return an element: the three effects run.
Attach(s) ==
  /\ scrollElement = NULL
  /\ scrollElement' = "div"
  /\ listeners' = {"resize", "scroll", "debounce"}
  /\ scrollTop' = s
  /\ timeoutId' = NoTimer
  /\ UNCHANGED << variant, props, scrollingDelay, listItems, isScrolling,
                  listHeight, measurementCache, timers, sinceScroll >>

\* getScrollElement returns null again: the three cleanups run.
Detach ==
  /\ scrollElement # NULL
  /\ scrollElement' = NULL
  /\ listeners' = {}
  /\ timers' = CleanupTimers
  /\ timeoutId' = NoTimer
  /\ UNCHANGED << variant, props, scrollingDelay, listItems, scrollTop,
                  isScrolling, listHeight, measurementCache, sinceScroll >>

\* The scrollingDelay prop changes: the debounce effect is cleaned up and
\* runs again.
SetScrollingDelay(delay) ==
  /\ delay # scrollingDelay
  /\ scrollingDelay' = delay
  /\ IF scrollElement # NULL
       THEN /\ timers' = CleanupTimers
            /\ timeoutId' = NoTimer
            /\ listeners' = (listeners \ {"debounce"}) \cup {"debounce"}
       ELSE UNCHANGED << timers, timeoutId, listeners >>
  /\ UNCHANGED << variant, props, listItems, scrollElement, scrollTop,
                  isScrolling, listHeight, measurementCache, sinceScroll >>

\* A scroll event of the element, its scrollTop being s: both handleScroll
\* listeners run.
Scroll(s) ==
  /\ listeners \cap {"scroll", "debounce"} # {}
  /\ scrollTop' = IF "scroll" \in listeners THEN s ELSE scrollTop
  /\ IF "debounce" \in listeners
       THEN /\ isScrolling' = TRUE
            /\ Cardinality(DOMAIN timers) < MaxTimers
            /\ timers' = DebounceHandleScroll.timers
            /\ timeoutId' = DebounceHandleScroll.timeoutId
       ELSE UNCHANGED << isScrolling, timers, timeoutId >>
  /\ sinceScroll' = 0
  /\ UNCHANGED << variant, props, scrollingDelay, listItems, scrollElement,
                  listHeight, measurementCache, listeners >>

\* The ResizeObserver's callback, height being the entry's block size.
Resize(height) ==
  /\ "resize" \in listeners
  /\ listHeight' = height
  /\ UNCHANGED << variant, props, scrollingDelay, listItems, scrollElement,
                  scrollTop, isScrolling, measurementCache, listeners,
                  timeoutId, timers, sinceScroll >>

\* One unit of time passes.
Tick ==
  /\ timers' = [ t \in DOMAIN timers |-> Max(0, timers[t] - 1) ]
  /\ sinceScroll' = Min(MaxDelay, sinceScroll + 1)
  /\ UNCHANGED << variant, props, scrollingDelay, listItems, scrollElement,
                  scrollTop, isScrolling, listHeight, measurementCache,
                  listeners, timeoutId >>

\* A timeout whose delay has elapsed runs its callback.
TimerFire(id) ==
  /\ id \in DOMAIN timers
  /\ timers[id] = 0
  /\ isScrolling' = FALSE
  /\ timers' = clearTimeout(timers, id)
  /\ UNCHANGED << variant, props, scrollingDelay, listItems, scrollElement,
                  scrollTop, listHeight, measurementCache, listeners,
                  timeoutId, sinceScroll >>

\* ------------------------------------------------------------- measurement
Digits == << "0", "1", "2", "3", "4", "5", "6", "7", "8", "9" >>

IsDigit(c) == \E k \in 1 .. Len(Digits) : Digits[k] = c

DigitValue(c) == (CHOOSE k \in 1 .. Len(Digits) : Digits[k] = c) - 1

RECURSIVE ParseDigits(_, _, _)
ParseDigits(str, pos, acc) ==
  IF pos > Len(str) \/ ~IsDigit(str[pos])
    THEN acc
    ELSE ParseDigits(str, pos + 1, acc * 10 + DigitValue(str[pos]))

\* parseInt(str, 10) of a string of digits and letters: the number its
\* leading digits spell, NaN when it has none.
parseInt(str) ==
  IF Len(str) = 0 \/ ~IsDigit(str[1])
    THEN [ isNaN |-> TRUE, value |-> 0 ]
    ELSE [ isNaN |-> FALSE, value |-> ParseDigits(str, 1, 0) ]

\* The string React writes for data-index={virtualItem.index}.
RECURSIVE IndexToString(_)
IndexToString(n) ==
  IF n < 10 THEN << Digits[n + 1] >>
            ELSE IndexToString(n \div 10) \o << Digits[(n % 10) + 1] >>

\* element.getAttribute(name) || ""
AttributeOrEmpty(element, name) ==
  IF \E a \in element.attributes : a[1] = name
    THEN (CHOOSE a \in element.attributes : a[1] = name)[2]
    ELSE << >>

NullElement == [ isNull |-> TRUE, attributes |-> {}, height |-> 0 ]

\* What React may hand to the ref callback: null, a rendered row, or an
\* element whose data-index is missing, empty or not a number.
\* A rendered row: <div data-index={virtualItem.index} ref={measureElement}>
RowElement(index, height) ==
  [ isNull |-> FALSE, attributes |-> {<< "data-index", IndexToString(index) >>},
    height |-> height ]

\* Elements whose data-index is missing, empty or not a number.
InvalidElements ==
  { [ isNull |-> FALSE, attributes |-> attrs, height |-> h ] :
      attrs \in { {}, {<< "data-index", << >> >>},
                  {<< "data-index", << "x" >> >>} },
      h \in {1} }

Elements ==
  {NullElement}
  \cup { RowElement(i, h) : i \in 0 .. (props.itemsCount - 1), h \in Heights }
  \cup InvalidElements

\* The cache update writing the height under every key.
CacheWithEveryKey(cache, key, height) ==
  [ k \in DOMAIN cache \cup {key} |-> height ]

\* The cache update without the spread of the previous cache.
CacheWithoutSpread(cache, key, height) == [ k \in {key} |-> height ]

\* setMeasurementCache((cache) => ({ ...cache, [key]: size.height }))
CacheWith(cache, key, height) ==
  [ k \in DOMAIN cache \cup {key} |-> IF k = key THEN height ELSE cache[k] ]

\* measureElement emptying the cache when the index is not a number.
measureElementResetting(element) ==
  /\ variant = "dynamic"
  /\ IF element.isNull
       THEN UNCHANGED measurementCache
       ELSE LET indexAttribute == AttributeOrEmpty(element, "data-index")
                index == parseInt(indexAttribute)
            IN  IF index.isNaN
                  THEN measurementCache' = << >>
                  ELSE measurementCache' =
                         CacheWith(measurementCache, getItemKey[index.value],
                                   element.height)
  /\ UNCHANGED << variant, props, scrollingDelay, listItems, scrollElement,
                  scrollTop, isScrolling, listHeight, listeners, timeoutId,
                  timers, sinceScroll >>

measureElement(element) ==
  /\ variant = "dynamic"
  /\ IF element.isNull
       THEN UNCHANGED measurementCache
       ELSE LET indexAttribute == AttributeOrEmpty(element, "data-index")
                index == parseInt(indexAttribute)
            IN  IF index.isNaN
                  THEN UNCHANGED measurementCache
                  ELSE measurementCache' =
                         CacheWith(measurementCache, getItemKey[index.value],
                                   element.height)
  /\ UNCHANGED << variant, props, scrollingDelay, listItems, scrollElement,
                  scrollTop, isScrolling, listHeight, listeners, timeoutId,
                  timers, sinceScroll >>

\* Simple's reverse button: setListItems((items) => items.slice().reverse())
Reversed(items) == [ i \in 1 .. Len(items) |-> items[Len(items) + 1 - i] ]

Reverse ==
  /\ listItems' = Reversed(listItems)
  /\ UNCHANGED << variant, props, scrollingDelay, scrollElement, scrollTop,
                  isScrolling, listHeight, measurementCache, listeners,
                  timeoutId, timers, sinceScroll >>

\* ---------------------------------------------------------- specifications
\* The window's environment: the element is attached and detached, scrolled
\* and resized, rows are measured, the list is reversed.  No time passes.
Next ==
  \/ \E s \in ScrollOffsets : Attach(s)
  \/ Detach
  \/ \E s \in ScrollOffsets : Scroll(s)
  \/ \E height \in ViewportHeights : Resize(height)
  \/ \E element \in Elements : measureElement(element)
  \/ Reverse

Spec == Init /\ [][Next]_vars

\* The debounce's environment: time passes, timeouts expire, the
\* scrollingDelay prop changes.
NextDebounce ==
  \/ \E s \in ScrollOffsets : Attach(s)
  \/ Detach
  \/ \E s \in ScrollOffsets : Scroll(s)
  \/ \E height \in ViewportHeights : Resize(height)
  \/ \E delay \in Delays : SetScrollingDelay(delay)
  \/ Tick
  \/ \E id \in TimerIds : TimerFire(id)

\* The same environment for the hook that was given both height functions.
SpecPrecedence == InitPrecedence /\ [][Next]_vars

SpecDebounce == InitDebounce /\ [][NextDebounce]_vars

\* The hook from its first call on: it is mounted or throws, and a mounted
\* hook lives in the window's environment.
NextConstruct ==
  \/ Mount
  \/ variant = "dynamic" /\ Next

SpecConstruct == InitConstruct /\ [][NextConstruct]_vars

\* The host runs a timeout that is due, and time does not stop.
FairSpecDebounce ==
  /\ SpecDebounce
  /\ WF_vars(Tick)
  /\ WF_vars(\E id \in TimerIds : TimerFire(id))

\* ------------------------------------------------------------------ claims
Window == useFixedSizeList(Render)

Rows == 0 .. (props.itemsCount - 1)

\* The dynamic hook was given estimateItemHeight and no itemHeight.
MeasuredMode == variant = "dynamic" /\ DOMAIN props.itemHeight = {}

\* The height of row i in render r: the fixed hook's itemHeight, the dynamic
\* hook's getItemHeight(i).
RowHeight(r, i) ==
  IF r.variant = "fixed" THEN r.itemHeight ELSE getItemHeight(r, i)

\* The sum of the heights of rows 0 .. k-1.
RECURSIVE SumOfHeights(_, _)
SumOfHeights(r, k) ==
  IF k <= 0 THEN 0 ELSE SumOfHeights(r, k - 1) + RowHeight(r, k - 1)

RowTop(i)    == SumOfHeights(Render, i)
RowBottom(i) == SumOfHeights(Render, i + 1)

\* C1 (as claimed): whenever itemsCount > 0 the returned indices satisfy
\* 0 <= startIndex <= endIndex <= itemsCount - 1, in both hooks.
C1_IndicesInRange ==
  props.itemsCount > 0 =>
    /\ 0 <= Window.startIndex
    /\ Window.startIndex <= Window.endIndex
    /\ Window.endIndex <= props.itemsCount - 1

\* C2 (as claimed): in the dynamic hook with rows to scan, endIndex is
\* itemsCount - 1 when no row's bottom reaches the viewport's end, and
\* startIndex is 0 when no row's bottom exceeds the scroll offset.
C2_ScanDefaults ==
  (variant = "dynamic" /\ props.itemsCount > 0) =>
    /\ (\A i \in Rows : RowBottom(i) < scrollTop + listHeight)
         => Window.endIndex = props.itemsCount - 1
    /\ (\A i \in Rows : ~(RowBottom(i) > scrollTop))
         => Window.startIndex = 0

\* No scroll or resize was ever observed: the element is null and the state
\* is as the hook was mounted.
NoViewport ==
  scrollElement = NULL /\ listeners = {} /\ scrollTop = 0 /\ listHeight = 0

\* C3 (as claimed): with no scroll element the window holds no rows.
C3_EmptyWithoutElement == NoViewport => Len(Window.virtualItems) = 0

\* C3 (amended): with no scroll element the window is the one of scroll
\* offset 0 and viewport height 0: rows 0 .. min(itemsCount - 1, overscan),
\* which is empty only when itemsCount = 0.
C3_OverscanRowsWithoutElement ==
  NoViewport =>
    /\ Len(Window.virtualItems) = Min(props.itemsCount, props.overscan + 1)
    /\ \A k \in 1 .. Len(Window.virtualItems) :
         Window.virtualItems[k].index = k - 1
    /\ props.itemsCount > 0 =>
         /\ Window.startIndex = 0
         /\ Window.endIndex = Min(props.itemsCount - 1, props.overscan)

\* Rows were measured while the element was still null; two of the three
\* rows are returned.
C3_Witness ==
  /\ NoViewport
  /\ props.itemsCount = MaxItems
  /\ props.overscan + 1 < props.itemsCount
  /\ Len(Window.virtualItems) = props.overscan + 1
  /\ MeasuredMode
  /\ DOMAIN measurementCache # {}

\* Row j is among the rows the hook returns.
Rendered(j) ==
  /\ Window.startIndex <= j /\ j <= Window.endIndex
  /\ \E k \in 1 .. Len(Window.virtualItems) : Window.virtualItems[k].index = j

\* Row i and its neighbours up to overscan on each side, as far as they exist.
Padded(i) == { j \in Rows : i - props.overscan <= j /\ j <= i + props.overscan }

\* C4 (as claimed): fixed hook: every row whose extent [i*h, (i+1)*h] meets
\* [s, s+v] is in the range with its overscan neighbours; startIndex <=
\* endIndex unless itemsCount = 0, when the range is empty.
C4_ClosedCoverage ==
  variant = "fixed" =>
    /\ \A i \in Rows :
         (RowTop(i) <= scrollTop + listHeight /\ RowBottom(i) >= scrollTop)
           => \A j \in Padded(i) : Rendered(j)
    /\ props.itemsCount = 0 => Window.endIndex < Window.startIndex
    /\ props.itemsCount > 0 => Window.startIndex <= Window.endIndex

\* C4 (amended): fixed hook: every row whose half-open extent [i*h, (i+1)*h)
\* meets [s, s+v] is in the range with its overscan neighbours; startIndex
\* <= endIndex when itemsCount > 0 and s < h * itemsCount; the range is
\* empty when itemsCount = 0.
C4_HalfOpenCoverage ==
  variant = "fixed" =>
    /\ \A i \in Rows :
         (RowTop(i) <= scrollTop + listHeight /\ RowBottom(i) > scrollTop)
           => \A j \in Padded(i) : Rendered(j)
    /\ props.itemsCount = 0 =>
         (Window.endIndex < Window.startIndex /\ Window.virtualItems = << >>)
    /\ (props.itemsCount > 0 /\ scrollTop < props.itemHeight * props.itemsCount)
         => Window.startIndex <= Window.endIndex

\* The viewport starts exactly where row startIndex - 1 ends, that row is
\* left out, and the rows that reach into the viewport are rendered.
C4_Witness ==
  /\ variant = "fixed"
  /\ props.overscan = 0
  /\ props.itemHeight > 1
  /\ Window.startIndex >= 1
  /\ RowBottom(Window.startIndex - 1) = scrollTop
  /\ listHeight > 0
  /\ Window.startIndex < Window.endIndex
  /\ Rendered(Window.startIndex)
  /\ Rendered(Window.endIndex)

RECURSIVE SumOfRowHeights(_)
SumOfRowHeights(rows) ==
  IF rows = << >> THEN 0 ELSE Head(rows).height + SumOfRowHeights(Tail(rows))

\* C5: totalHeight is the sum of the heights of all itemsCount rows: in the
\* dynamic hook the sum of cache-or-estimate heights, which is the sum of
\* the heights in allItems; in the fixed hook itemHeight * itemsCount.
C5_TotalHeight ==
  /\ Window.totalHeight = SumOfHeights(Render, props.itemsCount)
  /\ variant = "dynamic" =>
       /\ Len(Window.allItems) = props.itemsCount
       /\ Window.totalHeight = SumOfRowHeights(Window.allItems)
  /\ variant = "fixed" =>
       Window.totalHeight = props.itemHeight * props.itemsCount

\* Every row has a measured height, one of them not its estimate, and only
\* some of the rows are returned.
C5_Witness ==
  /\ MeasuredMode
  /\ props.itemsCount = MaxItems
  /\ \A i \in Rows : getItemKey[i] \in DOMAIN measurementCache
  /\ \E i \in Rows : getItemHeight(Render, i) # props.estimateItemHeight[i]
  /\ Len(Window.virtualItems) > 0
  /\ Len(Window.virtualItems) < props.itemsCount
  /\ Window.totalHeight = SumOfHeights(Render, props.itemsCount)

\* The rows of the dynamic hook's scan in render r.
AllItems(r) == DynamicWindow(r).allItems

\* In render r every row's offsetTop is the sum of the heights before it.
OffsetsArePrefixSums(r) ==
  \A j \in 0 .. (r.itemsCount - 1) :
    AllItems(r)[j + 1].offsetTop = SumOfHeights(r, j)

\* Between the scans before and after, row i's height went from h to H,
\* every row j > i moved by H - h and no row j <= i moved.
Shifted(before, after, i) ==
  LET h == before[i + 1].height
      H == after[i + 1].height
  IN  \A j \in 0 .. (Len(before) - 1) :
        after[j + 1].offsetTop =
          before[j + 1].offsetTop + (IF j > i THEN H - h ELSE 0)

\* C6: dynamic hook: offsetTop of row i is the sum of the heights of rows
\* 0 .. i-1, and a measurement report that changes row i's height from h to
\* H moves the offsetTop of every row j > i by H - h and of no row j <= i.
C6_Offsets ==
  /\ [](variant = "dynamic" => OffsetsArePrefixSums(Render))
  /\ [][ variant = "dynamic" =>
           \A before \in {AllItems(Render)} :
             \A next \in {Render'} :
               \A after \in {AllItems(next)} :
                 \A i \in Rows, height \in Heights :
                   \/ /\ Len(after) = Len(before)
                      /\ MeasuredMode => after[i + 1].height = height
                      /\ Shifted(before, after, i)
                   \/ ~measureElement(RowElement(i, height)) ]_vars

\* Three rows estimated at one unit each, row 1 measured at two units: row 2
\* is at three units (40, 80 and 120 px at 40 px a unit).
C6_Witness ==
  /\ MeasuredMode
  /\ props.itemsCount = 3
  /\ \A i \in Rows : props.estimateItemHeight[i] = 1
  /\ DOMAIN measurementCache = {getItemKey[1]}
  /\ measurementCache[getItemKey[1]] = 2
  /\ Window.allItems[2].offsetTop = 1
  /\ Window.allItems[3].offsetTop = 3

\* The step is a measurement report for the key of row i.
ReportFor(i) ==
  \E j \in Rows, height \in Heights :
    getItemKey[j] = getItemKey[i] /\ measureElement(RowElement(j, height))

\* C7: measured mode: after measureElement stored H under getItemKey(i),
\* getItemHeight(i) is H, and it stays what was measured over every scroll,
\* resize, attach, detach and report for another key.
C7_RoundTrip ==
  [][ MeasuredMode =>
        \A next \in {Render'} :
          /\ \A i \in Rows, height \in Heights :
               \/ getItemHeight(next, i) = height
               \/ ~measureElement(RowElement(i, height))
          /\ \A i \in Rows :
               (getItemKey[i] \in DOMAIN measurementCache
                  /\ listItems' = listItems) =>
                 \/ /\ getItemHeight(Render, i) = measurementCache[getItemKey[i]]
                    /\ getItemHeight(next, i) = getItemHeight(Render, i)
                 \/ ReportFor(i) ]_vars

\* Row 0 was measured at a height that is not its estimate, another row was
\* measured at another height, and the list was scrolled and resized.
C7_Witness ==
  /\ MeasuredMode
  /\ props.itemsCount >= 2
  /\ listItems = Items(props.itemsCount)
  /\ getItemKey[0] \in DOMAIN measurementCache
  /\ getItemKey[1] \in DOMAIN measurementCache
  /\ getItemHeight(Render, 0) # props.estimateItemHeight[0]
  /\ getItemHeight(Render, 0) = measurementCache[getItemKey[0]]
  /\ getItemHeight(Render, 1) # getItemHeight(Render, 0)
  /\ scrollTop > 0
  /\ listHeight > 0

\* C8: measured mode: after the list is reversed, the height of each index
\* is the one measured for the key now at that index, or the estimate of
\* the index when that key was never measured; the cache is as it was.
C8_KeyStable ==
  [][ (MeasuredMode /\ Reverse) =>
        \A next \in {Render'} :
          /\ next.measurementCache = measurementCache
          /\ \A i \in Rows :
               LET key == listItems[props.itemsCount - i]
               IN  /\ next.getItemKey[i] = key
                   /\ getItemHeight(next, i) =
                        IF key \in DOMAIN measurementCache
                          THEN measurementCache[key]
                          ELSE props.estimateItemHeight[i]
          /\ \A key \in DOMAIN measurementCache :
               \E i \in Rows :
                 /\ next.getItemKey[i] = key
                 /\ getItemHeight(next, i) = measurementCache[key] ]_vars

\* The list is reversed, and the height measured for the first item, which
\* is not the estimate, is the height of the last row.
C8_Witness ==
  /\ MeasuredMode
  /\ props.itemsCount = MaxItems
  /\ listItems = Reversed(Items(props.itemsCount))
  /\ DOMAIN measurementCache = {1}
  /\ measurementCache[1] # props.estimateItemHeight[props.itemsCount - 1]
  /\ getItemHeight(Render, props.itemsCount - 1) = measurementCache[1]
  /\ getItemHeight(Render, 0) = props.estimateItemHeight[0]

\* C9: every scroll event sets isScrolling and leaves exactly one timeout
\* pending, armed with the full scrollingDelay; isScrolling goes from true
\* to false only when the timeout armed by the last scroll event runs, no
\* earlier than scrollingDelay after that event, and then none is pending.
C9_Debounce ==
  [][ /\ (\E s \in ScrollOffsets : Scroll(s)) =>
           /\ isScrolling'
           /\ DOMAIN timers' = {timeoutId'}
           /\ timers'[timeoutId'] = scrollingDelay
      /\ (isScrolling /\ ~isScrolling') =>
           /\ sinceScroll >= scrollingDelay
           /\ timeoutId \in DOMAIN timers
           /\ timers[timeoutId] = 0
           /\ DOMAIN timers' = {} ]_vars

\* After a scroll event and the longest delay, the timeout has run:
\* isScrolling is false again and nothing is pending.
C9_Witness ==
  /\ scrollElement # NULL
  /\ scrollingDelay = MaxDelay
  /\ scrollingDelay > 1
  /\ ~isScrolling
  /\ timeoutId # NoTimer
  /\ DOMAIN timers = {}
  /\ sinceScroll >= scrollingDelay

\* C10 (as claimed): isScrolling is never left true for ever unless scroll
\* events keep arriving.
C10_EventuallyIdle ==
  \/ []<>(~isScrolling)
  \/ []<><<\E s \in ScrollOffsets : Scroll(s)>>_vars

\* C11: after the cleanups of a detach no listener or observer of the hook
\* is registered and no timeout is pending, whether isScrolling was true or
\* false; while the element stays null no step writes isScrolling or
\* scrollTop.
C11_DetachReleases ==
  /\ [](scrollElement = NULL => (listeners = {} /\ DOMAIN timers = {}))
  /\ [][ /\ Detach => (listeners' = {} /\ DOMAIN timers' = {})
         /\ (scrollElement = NULL /\ scrollElement' = NULL) =>
              (isScrolling' = isScrolling /\ scrollTop' = scrollTop) ]_vars

\* The element was detached while the timeout of a scroll event was still
\* running: isScrolling is true and nothing is registered or pending.
C11_Witness ==
  /\ scrollElement = NULL
  /\ isScrolling
  /\ sinceScroll < scrollingDelay
  /\ listeners = {}
  /\ DOMAIN timers = {}
  /\ timeoutId = NoTimer

\* The hook's state was created by its useState calls.
StateCreated ==
  /\ scrollTop \in Nat
  /\ isScrolling \in BOOLEAN
  /\ listHeight \in Nat
  /\ DOMAIN measurementCache \subseteq Nat

\* None of the hook's state exists and nothing is registered.
NoStateCreated ==
  /\ scrollTop = NoState /\ isScrolling = NoState
  /\ listHeight = NoState /\ measurementCache = NoState
  /\ listeners = {} /\ DOMAIN timers = {}

NeitherSupplied ==
  props.itemHeight = Undefined /\ props.estimateItemHeight = Undefined

\* C12: the first call of the hook throws if and only if neither itemHeight
\* nor estimateItemHeight was passed; a hook that threw has created no
\* state, and a hook given at least one of the two is mounted with its
\* state and never throws.
C12_ConfigurationCheck ==
  /\ [](variant = "error" => (NeitherSupplied /\ NoStateCreated))
  /\ [](variant = "dynamic" => (~NeitherSupplied /\ StateCreated))
  /\ [][ Mount => (variant' = "error" <=> NeitherSupplied) ]_vars

\* The hook was called for three items with neither function and threw.
C12_Witness ==
  /\ variant = "error"
  /\ props.itemsCount = MaxItems
  /\ NeitherSupplied
  /\ NoStateCreated

\* The hook was given both itemHeight and estimateItemHeight.
BothSupplied ==
  /\ variant = "dynamic"
  /\ DOMAIN props.itemHeight # {}
  /\ DOMAIN props.estimateItemHeight # {}

\* The sum of itemHeight(0) .. itemHeight(k-1).
RECURSIVE SumOfItemHeights(_)
SumOfItemHeights(k) ==
  IF k <= 0 THEN 0 ELSE SumOfItemHeights(k - 1) + props.itemHeight[k - 1]

\* The render with no estimator and nothing measured.
WithoutEstimateAndCache ==
  [ Render EXCEPT !.estimateItemHeight = Undefined,
                  !.measurementCache = << >> ]

\* C13: given both itemHeight and estimateItemHeight, every row's height is
\* itemHeight(index), every offsetTop and totalHeight are sums of
\* itemHeight, and the whole window is the one computed with no estimator
\* and an empty cache, whatever was measured.
C13_Precedence ==
  BothSupplied =>
    /\ \A i \in Rows :
         /\ getItemHeight(Render, i) = props.itemHeight[i]
         /\ Window.allItems[i + 1].height = props.itemHeight[i]
         /\ Window.allItems[i + 1].offsetTop = SumOfItemHeights(i)
    /\ Window.totalHeight = SumOfItemHeights(props.itemsCount)
    /\ Window = useFixedSizeList(WithoutEstimateAndCache)

\* Every row was measured at a height that is neither its itemHeight nor
\* its estimate, which differ for some row, and the rows keep itemHeight.
C13_Witness ==
  /\ BothSupplied
  /\ props.itemsCount = MaxItems
  /\ \E i \in Rows : props.itemHeight[i] # props.estimateItemHeight[i]
  /\ \A i \in Rows : getItemKey[i] \in DOMAIN measurementCache
  /\ \E i \in Rows :
       /\ measurementCache[getItemKey[i]] # props.itemHeight[i]
       /\ measurementCache[getItemKey[i]] # props.estimateItemHeight[i]
       /\ Window.allItems[i + 1].height = props.itemHeight[i]
  /\ scrollTop > 0
  /\ Len(Window.virtualItems) > 0

\* C14: a call of measureElement with an element whose data-index is
\* missing, empty or not a number returns normally and changes nothing:
\* not the cache, scrollTop, listHeight, isScrolling or the window.
C14_InvalidReportDropped ==
  /\ [](variant = "dynamic" =>
         \A element \in InvalidElements : ENABLED measureElement(element))
  /\ [][ \A element \in InvalidElements :
           measureElement(element) =>
             /\ measurementCache' = measurementCache
             /\ scrollTop' = scrollTop
             /\ listHeight' = listHeight
             /\ isScrolling' = isScrolling
             /\ \A next \in {Render'} : useFixedSizeList(next) = Window ]_vars

\* Rows were measured, the list was scrolled and resized, and a report
\* with no data-index can arrive.
C14_Witness ==
  /\ MeasuredMode
  /\ props.itemsCount = MaxItems
  /\ DOMAIN measurementCache # {}
  /\ \E i \in Rows : getItemHeight(Render, i) # props.estimateItemHeight[i]
  /\ scrollTop > 0
  /\ listHeight > 0
  /\ isScrolling
  /\ \A element \in InvalidElements :
       /\ parseInt(AttributeOrEmpty(element, "data-index")).isNaN
       /\ ENABLED measureElement(element)

\* The largest q with q * h <= a, and the smallest q with a <= q * h.
FloorOf(a, h) == CHOOSE q \in 0 .. a : q * h <= a /\ a < (q + 1) * h
CeilOf(a, h)  == CHOOSE q \in 0 .. a : (q - 1) * h < a /\ a <= q * h

\* The fixed hook's render of the scenario: 10000 rows of 40 px, a viewport
\* of 600 px, overscan 3, not scrolled.
ScenarioRender ==
  [ variant |-> "fixed", itemsCount |-> 10000, overscan |-> 3,
    itemHeight |-> 40, estimateItemHeight |-> Undefined,
    getItemKey |-> << >>, scrollTop |-> 0, listHeight |-> 600,
    measurementCache |-> << >> ]

\* C15: fixed hook: startIndex = max(0, floor(s / h) - overscan), endIndex
\* = min(itemsCount - 1, ceil((s + v) / h) + overscan), every returned
\* row's offsetTop is index * h and totalHeight is h * itemsCount; the
\* scenario gives startIndex 0, endIndex 18 and totalHeight 400000.
C15_FixedReference ==
  /\ variant = "fixed" =>
       LET h == props.itemHeight
       IN  /\ Window.startIndex =
                Max(0, FloorOf(scrollTop, h) - props.overscan)
           /\ Window.endIndex =
                Min(props.itemsCount - 1,
                    CeilOf(scrollTop + listHeight, h) + props.overscan)
           /\ \A k \in 1 .. Len(Window.virtualItems) :
                Window.virtualItems[k].offsetTop =
                  Window.virtualItems[k].index * h
           /\ Window.totalHeight = h * props.itemsCount
  /\ useFixedSizeList(ScenarioRender).startIndex = 0
  /\ useFixedSizeList(ScenarioRender).endIndex = 18
  /\ useFixedSizeList(ScenarioRender).totalHeight = 400000

\* A scroll offset that is not a multiple of the row height, a viewport
\* that ends on a row boundary, and a window that starts after row 0.
C15_Witness ==
  /\ variant = "fixed"
  /\ props.itemHeight = 2
  /\ scrollTop % 2 = 1
  /\ listHeight > 0
  /\ props.itemsCount = MaxItems
  /\ Window.startIndex = FloorOf(scrollTop, 2)
  /\ Window.startIndex > 0
  /\ Window.endIndex = CeilOf(scrollTop + listHeight, 2)
  /\ Len(Window.virtualItems) > 1

\* C16 (as claimed): in both hooks virtualItems is the sequence of the rows
\* startIndex, startIndex + 1, ..., endIndex, of length endIndex -
\* startIndex + 1 (no row when endIndex < startIndex), also when the scan
\* left an index unset.  Stated for lists that have rows.
C16_Contiguous ==
  props.itemsCount > 0 =>
    /\ Len(Window.virtualItems) =
         Max(0, Window.endIndex - Window.startIndex + 1)
    /\ \A k \in 1 .. Len(Window.virtualItems) :
         Window.virtualItems[k].index = Window.startIndex + k - 1

\* C17: at most one timeout of the hook is pending in every reachable
\* state, and it is the one held in timeoutId; a scroll event leaves only
\* the timeout it armed, and a cleanup of the debounce effect (the element
\* or scrollingDelay changed) leaves none.
C17_SingleTimer ==
  /\ [](Cardinality(DOMAIN timers) <= 1 /\ DOMAIN timers \subseteq {timeoutId})
  /\ [][ /\ (\E s \in ScrollOffsets : Scroll(s)) =>
              /\ Cardinality(DOMAIN timers') = 1
              /\ \A id \in DOMAIN timers' : timers'[id] = scrollingDelay
         /\ (Detach \/ \E delay \in Delays : SetScrollingDelay(delay)) =>
              DOMAIN timers' = {}
         /\ (\E s \in ScrollOffsets : Attach(s)) => DOMAIN timers' = {} ]_vars

\* The timeout of a scroll event is pending, part of its delay has passed,
\* and it is the only one.
C17_Witness ==
  /\ scrollElement # NULL
  /\ isScrolling
  /\ sinceScroll > 0
  /\ sinceScroll < scrollingDelay
  /\ Cardinality(DOMAIN timers) = 1
  /\ timeoutId \in DOMAIN timers
  /\ timers[timeoutId] = scrollingDelay - sinceScroll

\* C18: a measureElement call for row i with height H sets the cache entry
\* of getItemKey(i) to H and changes nothing else: every other entry is
\* kept, scrollTop, listHeight and isScrolling are unchanged; no step
\* removes a key from the cache; scroll, resize, attach and detach leave
\* the cache as it was.
C18_ReportFrame ==
  [][ /\ \A i \in Rows, height \in Heights :
           measureElement(RowElement(i, height)) =>
             /\ DOMAIN measurementCache' =
                  DOMAIN measurementCache \cup {getItemKey[i]}
             /\ measurementCache'[getItemKey[i]] = height
             /\ \A key \in DOMAIN measurementCache \ {getItemKey[i]} :
                  measurementCache'[key] = measurementCache[key]
             /\ scrollTop' = scrollTop
             /\ listHeight' = listHeight
             /\ isScrolling' = isScrolling
      /\ DOMAIN measurementCache \subseteq DOMAIN measurementCache'
      /\ \/ \E s \in ScrollOffsets : Scroll(s) \/ Attach(s)
         \/ \E height \in ViewportHeights : Resize(height)
         \/ Detach
         => measurementCache' = measurementCache ]_vars

\* Three rows were measured, not all at the same height, after the list
\* was scrolled and resized.
C18_Witness ==
  /\ variant = "dynamic"
  /\ props.itemsCount = MaxItems
  /\ Cardinality(DOMAIN measurementCache) = MaxItems
  /\ \E j, k \in DOMAIN measurementCache :
       measurementCache[j] # measurementCache[k]
  /\ scrollTop > 0
  /\ listHeight > 0
  /\ isScrolling

\* C19 (as claimed): dynamic hook, itemsCount > 0 and 0 <= scrollTop <
\* totalHeight: every row whose extent [offsetTop, offsetTop + height]
\* overlaps the open interval (scrollTop, scrollTop + listHeight) has its
\* index in [startIndex, endIndex], also when the content is shorter than
\* the viewport.
C19_DynamicCoverage ==
  (variant = "dynamic" /\ props.itemsCount > 0
     /\ scrollTop < Window.totalHeight) =>
    \A i \in Rows :
      (RowTop(i) < scrollTop + listHeight /\ RowBottom(i) > scrollTop) =>
        (Window.startIndex <= i /\ i <= Window.endIndex)

====
